---- MODULE Spec2Model ----
(***************************************************************************)
(* Model of the camera capture subsystem of FeederGuard (src/src/camera.py *)
(* driven by src/src/app.py, configured by src/src/config.py).             *)
(*                                                                         *)
(* CameraThread is modelled statement by statement: every read or write of *)
(* a field shared between threads (self._running, self._cam,               *)
(* self._connected, self._last_error, self._frame, self._frame_lock) is a  *)
(* separate step, so that every interleaving of the capture loop, stop()   *)
(* and the get_frame() readers is explored.                                *)
(***************************************************************************)
EXTENDS Integers, Sequences, FiniteSets, TLC

(* ---------------------------- bounds ----------------------------------- *)
MaxThreads == 2      \* Thread objects that can ever be created by start()
NReaders   == 2      \* request threads calling get_frame()
MaxFrames  == 2      \* frames the camera delivers to the capture loop
FrameWords == 2      \* pixels of a frame
MaxCycles  == 2      \* read failures counted by the history variable cycles
NChat      == 2      \* /chat requests handled at the same time
MaxTurns   == 2      \* follow-ups a history holds before no more are sent
MaxPhotos  == 3      \* enroll calls made

(* ------------------------ program constants ---------------------------- *)
RTSP_PATHS == <<"/stream1", "/stream2", "/live", "/h264", "/cam/realmonitor", "/">>
HTTP_PATHS == <<"/video", "/mjpeg", "/stream", "/cam.mjpg", "/snapshot.jpg">>
CAMERA_IP  == "192.168.68.55"
reconnect_interval == 5        \* self._reconnect_interval, in seconds

NoCam   == [kind |-> "None"]   \* self._cam is None
NoFrame == <<>>                \* self._frame is None
NoError == "None"              \* self._last_error is None
NoUrl   == [scheme |-> "none", path |-> ""]
Free    == <<>>                \* self._frame_lock is not held
NoJpeg  == <<"None">>          \* jpeg is None (bytes are sequences of strings)
NoChunk == <<>>                \* nothing yielded
Threads == 1..MaxThreads
Readers == 1..NReaders
Chatters == 1..NChat

\* app.py: the value current_conversation is bound to at import and by
\* /chat/reset.
EmptyConversation ==
    [contact_sheet_b64 |-> "None", frame_b64 |-> "None", history |-> <<>>]

NoResponse == [status |-> 0, error |-> ""]   \* nothing sent yet
NoResult ==
    [op |-> "none", success |-> FALSE, normalized_name |-> "", photo_count |-> 0,
     file |-> ""]

VARIABLES
    running,      \* self._running
    thread,       \* self._thread: 0 (None) or the id of the latest Thread
    cam,          \* self._cam: None or the VideoCapture object it refers to
    connected,    \* self._connected
    last_error,   \* self._last_error
    frame,        \* self._frame: None or the stored array
    lock,         \* self._frame_lock: None (free) or its holder
    camOverride,  \* CAMERA_URL_OVERRIDE as bound in camera.py at import
    cfgOverride,  \* CAMERA_URL_OVERRIDE, the global of config.py
    pc,           \* position of each capture-loop thread
    phase,        \* _connect: block being executed (override / rtsp / http)
    idx,          \* _connect: index of the for loop in the current block
    tmp,          \* _connect: VideoCapture constructed, not yet assigned
    local,        \* _capture_loop: local variable frame
    stopPc,       \* position of the thread that runs stop()
    rpc,          \* position of each reader inside get_frame()
    result,       \* value returned by each reader's latest get_frame() call
    epc,          \* position of the streaming client's generate_mjpeg()
    eframe,       \* get_frame_jpeg: local variable frame
    ejpeg,        \* generate_mjpeg: local variable jpeg
    etext,        \* _get_no_signal_frame: the text err_text_size was taken of
    chunk,        \* the bytes generate_mjpeg yielded last
    camUp,        \* environment: the camera serves goodUrl reliably
    goodUrl,      \* environment: the URL the camera serves when it is up
    tried,        \* history: candidates attempted by the current _connect
    rejected,     \* history: this _connect saw an open handle fail its read
    captured,     \* history: number of frames read by the capture loop
    lastPub,      \* history: the frame handed to the latest publish
    callSeq,      \* history: number of the latest publish when a call began
    cycles,       \* history: reconnections made after a read failure
    edown,        \* history: the connection was lost when eframe was read
    arrays,       \* the ndarray objects alive: object id -> pixels
    localRef,     \* object the loop's local `frame` refers to (0: none)
    frameRef,     \* object self._frame refers to (0: None)
    resultRef,    \* object each caller's get_frame() result refers to (0: None)
    lastOp,       \* history: the latest operation on the arrays
    current_conversation, \* app.py: the dict the global refers to
    cpc,          \* position of each /chat request being handled
    cmsg,         \* /chat: the local `message`
    chist,        \* /chat: the history passed to chat_followup, then
                  \* updated_history
    cres,         \* /chat: the response sent (status and error text)
    active,       \* history: an /identify succeeded since the last /chat/reset
    photos,       \* library: the numbers NNN of the files NNN.jpg of each subject
    libResult,    \* library: what the latest enroll or delete_photo returned
    enrolls       \* history: enroll calls made so far (the photo each one saved)

ctlVars   == <<running, thread, camOverride, cfgOverride>>
storeVars == <<frame, lock, lastPub>>
negVars   == <<phase, idx, tmp, tried, rejected>>
readVars  == <<rpc, result, callSeq>>
envVars   == <<camUp, goodUrl>>
emitVars  == <<epc, eframe, ejpeg, etext, chunk, edown>>
objVars   == <<arrays, localRef, frameRef, resultRef, lastOp>>
chatVars  == <<current_conversation, cpc, cmsg, chist, cres, active>>
libVars   == <<photos, libResult, enrolls>>
vars == <<ctlVars, cam, connected, last_error, storeVars, pc, negVars, local,
          captured, cycles, stopPc, readVars, envVars, emitVars, objVars, chatVars, libVars>>

(* ------------------------------ frames --------------------------------- *)
\* The n-th frame delivered by the camera: every pixel carries n.
Frame(n) == [i \in 1..FrameWords |-> n]

\* ndarray.copy(): a new array with the same pixels.
Copy(f) == [i \in DOMAIN f |-> f[i]]

\* Capture number of a frame (0 for None).
FrameId(f) == IF f = NoFrame THEN 0 ELSE f[1]

WellFormed(f) == \A i \in DOMAIN f : f[i] = f[1]

(* ---------------------------- candidates ------------------------------- *)
RtspUrl(path) == [scheme |-> "rtsp", path |-> path]
HttpUrl(path) == [scheme |-> "http", path |-> path]
OverrideUrl(o) == [scheme |-> "override", path |-> o]

\* The URL passed to cv2.VideoCapture at position (ph, i) of _connect.
UrlAt(ph, i) ==
    CASE ph = "override" -> OverrideUrl(camOverride)
      [] ph = "rtsp"     -> RtspUrl(RTSP_PATHS[i])
      [] ph = "http"     -> HttpUrl(HTTP_PATHS[i])

\* NextPos with the HTTP loop starting at its second path.
NextPosSkipsHttp(ph, i) ==
    CASE ph = "override" -> [phase |-> "rtsp", idx |-> 1]
      [] ph = "rtsp" -> IF i < Len(RTSP_PATHS)
                        THEN [phase |-> "rtsp", idx |-> i + 1]
                        ELSE [phase |-> "http", idx |-> 2]
      [] ph = "http" -> IF i < Len(HTTP_PATHS)
                        THEN [phase |-> "http", idx |-> i + 1]
                        ELSE [phase |-> "fail", idx |-> 0]

\* The position of _connect after the candidate at (ph, i) was released:
\* the next iteration of the same for loop, the next block, or "fail" when
\* the HTTP loop is exhausted.
NextPos(ph, i) ==
    CASE ph = "override" -> [phase |-> "rtsp", idx |-> 1]
      [] ph = "rtsp" -> IF i < Len(RTSP_PATHS)
                        THEN [phase |-> "rtsp", idx |-> i + 1]
                        ELSE [phase |-> "http", idx |-> 1]
      [] ph = "http" -> IF i < Len(HTTP_PATHS)
                        THEN [phase |-> "http", idx |-> i + 1]
                        ELSE [phase |-> "fail", idx |-> 0]

\* The first position of _connect: the override block when the override URL
\* is set (a non-empty string is truthy), the RTSP loop otherwise.
FirstPos == IF camOverride # ""
            THEN [phase |-> "override", idx |-> 0]
            ELSE [phase |-> "rtsp", idx |-> 1]

(* ------------------------ the camera (environment) --------------------- *)
\* cv2.VideoCapture(url): the object, opened or not.
NewCapture(url, ok) ==
    [url |-> url, opened |-> ok, wasOpened |-> ok, tested |-> FALSE, bufsize |-> 0]

\* Outcomes of opening url: anything, except that a camera that is up
\* serves goodUrl.
OpenOutcomes(url) == IF camUp /\ url = goodUrl THEN {TRUE} ELSE BOOLEAN

\* Outcomes of the test read of _connect on handle h: a handle that is not
\* open (never opened, or released) delivers nothing.
TestReadOutcomes(h) ==
    IF ~h.opened THEN {FALSE}
    ELSE IF camUp /\ h.url = goodUrl THEN {TRUE} ELSE BOOLEAN

\* Outcomes of a read of the capture loop on handle h.
ReadOutcomes(h) ==
    IF h.opened /\ captured < MaxFrames THEN BOOLEAN ELSE {FALSE}

\* A release() that leaves the handle open.
ReleasedStaysOpen(h) == h

\* VideoCapture.release()
Released(h) == [h EXCEPT !.opened = FALSE]

\* Handles that are open: the one self._cam refers to and the ones just
\* constructed by _connect. An object no variable refers to any more has
\* been finalized, which releases it.
OpenHandles ==
    (IF cam # NoCam /\ cam.opened THEN 1 ELSE 0)
    + Cardinality({t \in Threads : tmp[t] # NoCam /\ tmp[t].opened})

(* ------------------------------- Init ---------------------------------- *)
\* CameraThread.__init__
InitObject ==
    /\ running = FALSE
    /\ thread = 0
    /\ cam = NoCam
    /\ connected = FALSE
    /\ last_error = NoError
    /\ frame = NoFrame
    /\ lock = Free
    /\ pc = [t \in Threads |-> "unborn"]
    /\ phase = [t \in Threads |-> "none"]
    /\ idx = [t \in Threads |-> 0]
    /\ tmp = [t \in Threads |-> NoCam]
    /\ local = [t \in Threads |-> NoFrame]
    /\ tried = [t \in Threads |-> <<>>]
    /\ rejected = [t \in Threads |-> FALSE]
    /\ captured = 0
    /\ lastPub = NoFrame
    /\ stopPc = "idle"
    /\ rpc = [r \in Readers |-> "idle"]
    /\ result = [r \in Readers |-> NoFrame]
    /\ callSeq = [r \in Readers |-> 0]
    /\ epc = "e_idle"
    /\ eframe = NoFrame
    /\ ejpeg = NoJpeg
    /\ etext = ""
    /\ chunk = NoChunk
    /\ edown = FALSE
    /\ arrays = [i \in {} |-> NoFrame]
    /\ localRef = 0
    /\ frameRef = 0
    /\ resultRef = [r \in Readers |-> 0]
    /\ lastOp = <<"none", 0>>
    /\ current_conversation = EmptyConversation
    /\ cpc = [c \in Chatters |-> "idle"]
    /\ cmsg = [c \in Chatters |-> ""]
    /\ chist = [c \in Chatters |-> <<>>]
    /\ cres = [c \in Chatters |-> NoResponse]
    /\ active = FALSE
    /\ photos = [d \in {} |-> <<>>]
    /\ libResult = NoResult
    /\ enrolls = 0

\* The override URL config.py reads from the environment at import: unset
\* (the default) or set. camera.py's `from config import` binds its own name
\* to the same string.
InitOverride ==
    /\ cfgOverride \in {"", "rtsp://override"}
    /\ camOverride = cfgOverride

Init ==
    /\ InitObject
    /\ InitOverride
    /\ cycles = 0
    /\ camUp = FALSE
    /\ goodUrl = NoUrl

(* ------------------------- start() and stop() -------------------------- *)
Alive(t) == pc[t] \notin {"unborn", "done", "crashed"}

\* start(): returns at once when already running; otherwise sets the flag
\* and starts a new Thread on _capture_loop.
Start ==
    /\ ~running
    /\ thread < MaxThreads
    /\ running' = TRUE
    /\ thread' = thread + 1
    /\ pc' = [pc EXCEPT ![thread + 1] = "test"]
    /\ UNCHANGED <<camOverride, cfgOverride, cam, connected, last_error, storeVars,
                   negVars, local, captured, cycles, stopPc, readVars, envVars, emitVars, objVars, chatVars, libVars>>

\* app.py calls camera.start() once, at boot.
AppStart == thread = 0 /\ Start

\* stop(), first statement: clear the flag.
StopCall ==
    /\ stopPc = "idle"
    /\ running' = FALSE
    /\ stopPc' = "s_join"
    /\ UNCHANGED <<thread, camOverride, cfgOverride, cam, connected, last_error,
                   storeVars, pc, negVars, local, captured, cycles, readVars, envVars, emitVars, objVars, chatVars, libVars>>

\* app.py registers cleanup(), which calls camera.stop(), to run at exit.
AppStop == thread # 0 /\ StopCall

\* stop(): if self._thread: self._thread.join(timeout=2). The join returns
\* when the thread has ended or when the two seconds have passed, whichever
\* comes first: stop() goes on whether or not the thread is still alive.
StopJoin ==
    /\ stopPc = "s_join"
    /\ stopPc' = "s_chk"
    /\ UNCHANGED <<ctlVars, cam, connected, last_error, storeVars, pc, negVars,
                   local, captured, cycles, readVars, envVars, emitVars, objVars, chatVars, libVars>>

\* stop(): if self._cam: (a VideoCapture object is truthy, released or not)
StopCheckCam ==
    /\ stopPc = "s_chk"
    /\ stopPc' = IF cam # NoCam THEN "s_rel" ELSE "returned"
    /\ UNCHANGED <<ctlVars, cam, connected, last_error, storeVars, pc, negVars,
                   local, captured, cycles, readVars, envVars, emitVars, objVars, chatVars, libVars>>

\* stop(): self._cam.release(); self._cam is read again, and the call
\* raises AttributeError when the capture loop has set it to None meanwhile.
StopRelease ==
    /\ stopPc = "s_rel"
    /\ IF cam = NoCam
       THEN stopPc' = "raised" /\ cam' = cam
       ELSE stopPc' = "s_clr" /\ cam' = Released(cam)
    /\ UNCHANGED <<ctlVars, connected, last_error, storeVars, pc, negVars,
                   local, captured, cycles, readVars, envVars, emitVars, objVars, chatVars, libVars>>

\* A stop() that also empties the slot.
StopClearEmptiesSlot ==
    /\ stopPc = "s_clr"
    /\ cam' = NoCam
    /\ frame' = NoFrame
    /\ stopPc' = "returned"
    /\ UNCHANGED <<ctlVars, connected, last_error, lock, lastPub, pc, negVars,
                   local, captured, cycles, readVars, envVars, emitVars, objVars, chatVars, libVars>>

\* stop(): self._cam = None
StopClear ==
    /\ stopPc = "s_clr"
    /\ cam' = NoCam
    /\ stopPc' = "returned"
    /\ UNCHANGED <<ctlVars, connected, last_error, storeVars, pc, negVars,
                   local, captured, cycles, readVars, envVars, emitVars, objVars, chatVars, libVars>>

StopStep == StopJoin \/ StopCheckCam \/ StopRelease \/ StopClear

(* --------------------------- _capture_loop ----------------------------- *)
Goto(t, l) == pc' = [pc EXCEPT ![t] = l]

\* An uncaught exception ends the thread: _capture_loop has no handler.
Crash(t) == Goto(t, "crashed")

\* A loop test that does not look at the flag.
AfterLoopTestIgnoresFlag(flag) == "chk_conn"

\* while self._running: into the body, or out of the loop and the thread.
AfterLoopTest(flag) == IF flag THEN "chk_conn" ELSE "done"

\* while self._running:
LoopTest(t) ==
    /\ pc[t] = "test"
    /\ Goto(t, AfterLoopTest(running))
    /\ UNCHANGED <<ctlVars, cam, connected, last_error, storeVars, negVars,
                   local, captured, cycles, stopPc, readVars, envVars, emitVars, objVars, chatVars, libVars>>

\* if not self._connected ...
CheckConnected(t) ==
    /\ pc[t] = "chk_conn"
    /\ Goto(t, IF ~connected THEN "c_begin" ELSE "chk_cam")
    /\ UNCHANGED <<ctlVars, cam, connected, last_error, storeVars, negVars,
                   local, captured, cycles, stopPc, readVars, envVars, emitVars, objVars, chatVars, libVars>>

\* ... or self._cam is None:
CheckCam(t) ==
    /\ pc[t] = "chk_cam"
    /\ Goto(t, IF cam = NoCam THEN "c_begin" ELSE "read")
    /\ UNCHANGED <<ctlVars, cam, connected, last_error, storeVars, negVars,
                   local, captured, cycles, stopPc, readVars, envVars, emitVars, objVars, chatVars, libVars>>

(* ------------------------------ _connect ------------------------------- *)
\* Entry of _connect: the first block to run depends on the override URL.
ConnectBegin(t) ==
    /\ pc[t] = "c_begin"
    /\ phase' = [phase EXCEPT ![t] = FirstPos.phase]
    /\ idx' = [idx EXCEPT ![t] = FirstPos.idx]
    /\ tried' = [tried EXCEPT ![t] = <<>>]
    /\ rejected' = [rejected EXCEPT ![t] = FALSE]
    /\ Goto(t, "c_new")
    /\ UNCHANGED <<ctlVars, cam, connected, last_error, storeVars, tmp, local,
                   captured, cycles, stopPc, readVars, envVars, emitVars, objVars, chatVars, libVars>>

\* cv2.VideoCapture(url): the right-hand side of the assignment.
ConnectNew(t) ==
    /\ pc[t] = "c_new"
    /\ LET url == UrlAt(phase[t], idx[t]) IN
       /\ \E ok \in OpenOutcomes(url) :
              tmp' = [tmp EXCEPT ![t] = NewCapture(url, ok)]
       /\ tried' = [tried EXCEPT ![t] = Append(@, [url |-> url, status |-> "pending"])]
    /\ Goto(t, "c_assign")
    /\ UNCHANGED <<ctlVars, cam, connected, last_error, storeVars, phase, idx,
                   rejected, local, captured, cycles, stopPc, readVars, envVars, emitVars, objVars, chatVars, libVars>>

\* self._cam = <the new object>; the object self._cam referred to is dropped.
ConnectAssign(t) ==
    /\ pc[t] = "c_assign"
    /\ cam' = tmp[t]
    /\ tmp' = [tmp EXCEPT ![t] = NoCam]
    /\ Goto(t, "c_isopen")
    /\ UNCHANGED <<ctlVars, connected, last_error, storeVars, phase, idx, tried,
                   rejected, local, captured, cycles, stopPc, readVars, envVars, emitVars, objVars, chatVars, libVars>>

\* Where _connect goes after isOpened(): to the test read or to release().
AfterIsOpened(opened) == IF opened THEN "c_read" ELSE "c_release"

\* AfterTestRead without the test of ret: an open handle is accepted.
AfterTestReadIgnoresRet(ret) == "c_set"

\* Where _connect goes after the test read: on to success or to release().
AfterTestRead(ret) == IF ret THEN "c_set" ELSE "c_release"

\* The history entry of the current candidate, once its outcome is known.
Mark(t, status) ==
    tried' = [tried EXCEPT ![t][Len(tried[t])].status = status]

\* if self._cam.isOpened():
ConnectIsOpened(t) ==
    /\ pc[t] = "c_isopen"
    /\ IF cam = NoCam
       THEN Crash(t) /\ UNCHANGED tried
       ELSE /\ Goto(t, AfterIsOpened(cam.opened))
            /\ IF cam.opened THEN UNCHANGED tried ELSE Mark(t, "failed")
    /\ UNCHANGED <<ctlVars, cam, connected, last_error, storeVars, phase, idx, tmp,
                   rejected, local, captured, cycles, stopPc, readVars, envVars, emitVars, objVars, chatVars, libVars>>

\* ret, _ = self._cam.read(); if ret:
ConnectTestRead(t) ==
    /\ pc[t] = "c_read"
    /\ IF cam = NoCam
       THEN Crash(t) /\ UNCHANGED <<cam, tried, rejected>>
       ELSE \E ret \in TestReadOutcomes(cam) :
              /\ cam' = [cam EXCEPT !.tested = ret]
              /\ Goto(t, AfterTestRead(ret))
              /\ Mark(t, IF ret THEN "won" ELSE "failed")
              /\ rejected' = [rejected EXCEPT ![t] = @ \/ (cam.opened /\ ~ret)]
    /\ UNCHANGED <<ctlVars, connected, last_error, storeVars, phase, idx, tmp,
                   local, captured, cycles, stopPc, readVars, envVars, emitVars, objVars, chatVars, libVars>>

\* A _connect that goes on without asking for the buffer depth.
ConnectSetBufferSkipped(t) ==
    /\ pc[t] = "c_set"
    /\ IF cam = NoCam
       THEN Crash(t) /\ cam' = cam
       ELSE cam' = cam /\ Goto(t, "c_conn")
    /\ UNCHANGED <<ctlVars, connected, last_error, storeVars, negVars,
                   local, captured, cycles, stopPc, readVars, envVars, emitVars, objVars, chatVars, libVars>>

\* self._cam.set(cv2.CAP_PROP_BUFFERSIZE, 1)
ConnectSetBuffer(t) ==
    /\ pc[t] = "c_set"
    /\ IF cam = NoCam
       THEN Crash(t) /\ cam' = cam
       ELSE cam' = [cam EXCEPT !.bufsize = 1] /\ Goto(t, "c_conn")
    /\ UNCHANGED <<ctlVars, connected, last_error, storeVars, negVars,
                   local, captured, cycles, stopPc, readVars, envVars, emitVars, objVars, chatVars, libVars>>

\* self._connected = True
ConnectSetConnected(t) ==
    /\ pc[t] = "c_conn"
    /\ connected' = TRUE
    /\ Goto(t, "c_err")
    /\ UNCHANGED <<ctlVars, cam, last_error, storeVars, negVars,
                   local, captured, cycles, stopPc, readVars, envVars, emitVars, objVars, chatVars, libVars>>

\* return: the locals of _connect, and the history of this call, are gone.
ConnectReturn(t) ==
    /\ phase' = [phase EXCEPT ![t] = "none"]
    /\ idx' = [idx EXCEPT ![t] = 0]
    /\ tried' = [tried EXCEPT ![t] = <<>>]
    /\ rejected' = [rejected EXCEPT ![t] = FALSE]
    /\ UNCHANGED tmp

\* self._last_error = None; return True: the loop goes on to read a frame.
ConnectReturnTrue(t) ==
    /\ pc[t] = "c_err"
    /\ last_error' = NoError
    /\ ConnectReturn(t)
    /\ Goto(t, "read")
    /\ UNCHANGED <<ctlVars, cam, connected, storeVars,
                   local, captured, cycles, stopPc, readVars, envVars, emitVars, objVars, chatVars, libVars>>

\* self._cam.release() of a candidate that failed, then the next candidate.
ConnectRelease(t) ==
    /\ pc[t] = "c_release"
    /\ IF cam = NoCam
       THEN Crash(t) /\ UNCHANGED <<cam, phase, idx>>
       ELSE LET nxt == NextPos(phase[t], idx[t]) IN
            /\ cam' = Released(cam)
            /\ phase' = [phase EXCEPT ![t] = nxt.phase]
            /\ idx' = [idx EXCEPT ![t] = nxt.idx]
            /\ Goto(t, IF nxt.phase = "fail" THEN "c_fail" ELSE "c_new")
    /\ UNCHANGED <<ctlVars, connected, last_error, storeVars, tmp, tried,
                   rejected, local, captured, cycles, stopPc, readVars, envVars, emitVars, objVars, chatVars, libVars>>

\* self._connected = False (every candidate failed)
ConnectFail(t) ==
    /\ pc[t] = "c_fail"
    /\ connected' = FALSE
    /\ Goto(t, "c_fail_err")
    /\ UNCHANGED <<ctlVars, cam, last_error, storeVars, negVars,
                   local, captured, cycles, stopPc, readVars, envVars, emitVars, objVars, chatVars, libVars>>

\* A message that does not name the host.
ConnectErrorWithoutHost == "Cannot connect to camera"

\* The message _connect records when every candidate failed.
ConnectError == "Cannot connect to camera at " \o CAMERA_IP

\* self._last_error = f"Cannot connect ..."; return False
ConnectReturnFalse(t) ==
    /\ pc[t] = "c_fail_err"
    /\ last_error' = ConnectError
    /\ ConnectReturn(t)
    /\ Goto(t, "sleep_reconnect")
    /\ UNCHANGED <<ctlVars, cam, connected, storeVars,
                   local, captured, cycles, stopPc, readVars, envVars, emitVars, objVars, chatVars, libVars>>

\* A loop that gives up after a failed negotiation.
AfterFailedConnectGivesUp == "done"

\* continue: a failed negotiation leads back to the loop test.
AfterFailedConnect == "test"

\* time.sleep(self._reconnect_interval); continue
SleepReconnect(t) ==
    /\ pc[t] = "sleep_reconnect"
    /\ Goto(t, AfterFailedConnect)
    /\ UNCHANGED <<ctlVars, cam, connected, last_error, storeVars, negVars,
                   local, captured, cycles, stopPc, readVars, envVars, emitVars, objVars, chatVars, libVars>>

(* --------------------- reading and publishing -------------------------- *)
\* ret, frame = self._cam.read(); if not ret:
LoopRead(t) ==
    /\ pc[t] = "read"
    /\ IF cam = NoCam
       THEN Crash(t) /\ UNCHANGED <<local, captured>>
       ELSE \E ret \in ReadOutcomes(cam) :
              IF ret
              THEN /\ local' = [local EXCEPT ![t] = Frame(captured + 1)]
                   /\ captured' = captured + 1
                   /\ Goto(t, "pub_acquire")
              ELSE /\ UNCHANGED <<local, captured>>
                   /\ Goto(t, "rf_disconnect")
    /\ UNCHANGED <<ctlVars, cam, connected, last_error, storeVars, negVars,
                   cycles, stopPc, readVars, envVars, emitVars, objVars, chatVars, libVars>>

\* A read failure that leaves the flag as it is.
ReadFailKeepsFlag == connected

\* The value the connected flag gets after a failed frame grab.
ReadFailFlag == FALSE

\* self._connected = False (frame grab failed)
ReadFailDisconnect(t) ==
    /\ pc[t] = "rf_disconnect"
    /\ connected' = ReadFailFlag
    /\ cycles' = IF cycles < MaxCycles THEN cycles + 1 ELSE cycles
    /\ Goto(t, "rf_release")
    /\ UNCHANGED <<ctlVars, cam, last_error, storeVars, negVars,
                   local, captured, stopPc, readVars, envVars, emitVars, objVars, chatVars, libVars>>

\* self._cam.release()
ReadFailRelease(t) ==
    /\ pc[t] = "rf_release"
    /\ IF cam = NoCam
       THEN Crash(t) /\ cam' = cam
       ELSE cam' = Released(cam) /\ Goto(t, "rf_clear")
    /\ UNCHANGED <<ctlVars, connected, last_error, storeVars, negVars,
                   local, captured, cycles, stopPc, readVars, envVars, emitVars, objVars, chatVars, libVars>>

\* self._cam = None
ReadFailClear(t) ==
    /\ pc[t] = "rf_clear"
    /\ cam' = NoCam
    /\ Goto(t, "sleep_retry")
    /\ UNCHANGED <<ctlVars, connected, last_error, storeVars, negVars,
                   local, captured, cycles, stopPc, readVars, envVars, emitVars, objVars, chatVars, libVars>>

\* time.sleep(1); continue
SleepRetry(t) ==
    /\ pc[t] = "sleep_retry"
    /\ Goto(t, "test")
    /\ UNCHANGED <<ctlVars, cam, connected, last_error, storeVars, negVars,
                   local, captured, cycles, stopPc, readVars, envVars, emitVars, objVars, chatVars, libVars>>

\* A lock that never blocks.
CanAcquireAlways(who) == TRUE

\* threading.Lock: acquire blocks until the lock is free.
CanAcquire(who) == lock = Free

\* A with block that does not give the lock back.
WithExitKeepsLock(holder) == holder

\* with self._frame_lock: (exit): the lock is released.
WithExit(holder) == Free

\* A publish that stores a partly written array.
PublishedPartly(f) == [i \in DOMAIN f |-> IF i = 1 THEN f[i] ELSE 0]

\* What the capture loop stores in the slot: a copy of the frame it read.
Published(f) == Copy(f)

\* with self._frame_lock: (enter)
PublishAcquire(t) ==
    /\ pc[t] = "pub_acquire"
    /\ CanAcquire(<<"loop", t>>)
    /\ lock' = <<"loop", t>>
    /\ Goto(t, "pub_store")
    /\ UNCHANGED <<ctlVars, cam, connected, last_error, frame, lastPub, negVars,
                   local, captured, cycles, stopPc, readVars, envVars, emitVars, objVars, chatVars, libVars>>

\* self._frame = frame.copy()
PublishStore(t) ==
    /\ pc[t] = "pub_store"
    /\ frame' = Published(local[t])
    /\ lastPub' = local[t]
    /\ Goto(t, "pub_release")
    /\ UNCHANGED <<ctlVars, cam, connected, last_error, lock, negVars,
                   local, captured, cycles, stopPc, readVars, envVars, emitVars, objVars, chatVars, libVars>>

\* with self._frame_lock: (exit)
PublishRelease(t) ==
    /\ pc[t] = "pub_release"
    /\ lock' = WithExit(lock)
    /\ Goto(t, "sleep_frame")
    /\ UNCHANGED <<ctlVars, cam, connected, last_error, frame, lastPub, negVars,
                   local, captured, cycles, stopPc, readVars, envVars, emitVars, objVars, chatVars, libVars>>

\* time.sleep(0.033)
SleepFrame(t) ==
    /\ pc[t] = "sleep_frame"
    /\ Goto(t, "test")
    /\ UNCHANGED <<ctlVars, cam, connected, last_error, storeVars, negVars,
                   local, captured, cycles, stopPc, readVars, envVars, emitVars, objVars, chatVars, libVars>>

\* Sleeps that all last as long as the reconnect interval.
SleepMsAlwaysReconnect(l) == reconnect_interval * 1000

\* The argument of the time.sleep() call each sleep position stands for, in
\* milliseconds: self._reconnect_interval, 1, 0.033.
SleepMs(l) ==
    CASE l = "sleep_reconnect" -> reconnect_interval * 1000
      [] l = "sleep_retry"     -> 1000
      [] l = "sleep_frame"     -> 33

ConnectStep(t) ==
    \/ ConnectBegin(t) \/ ConnectNew(t) \/ ConnectAssign(t)
    \/ ConnectIsOpened(t) \/ ConnectTestRead(t) \/ ConnectSetBuffer(t)
    \/ ConnectSetConnected(t) \/ ConnectReturnTrue(t) \/ ConnectRelease(t)
    \/ ConnectFail(t) \/ ConnectReturnFalse(t)

LoopStep(t) ==
    \/ LoopTest(t) \/ CheckConnected(t) \/ CheckCam(t)
    \/ ConnectStep(t) \/ SleepReconnect(t)
    \/ LoopRead(t) \/ ReadFailDisconnect(t) \/ ReadFailRelease(t)
    \/ ReadFailClear(t) \/ SleepRetry(t)
    \/ PublishAcquire(t) \/ PublishStore(t) \/ PublishRelease(t) \/ SleepFrame(t)

(* ------------------------------ get_frame ------------------------------ *)
\* A request thread calls get_frame(); what its previous call returned is
\* dropped.
ReaderCall(r) ==
    /\ rpc[r] = "idle"
    /\ rpc' = [rpc EXCEPT ![r] = "acquire"]
    /\ callSeq' = [callSeq EXCEPT ![r] = FrameId(lastPub)]
    /\ result' = [result EXCEPT ![r] = NoFrame]
    /\ UNCHANGED <<ctlVars, cam, connected, last_error, storeVars, pc, negVars,
                   local, captured, cycles, stopPc, envVars, emitVars, objVars, chatVars, libVars>>

\* with self._frame_lock: (enter)
ReaderAcquire(r) ==
    /\ rpc[r] = "acquire"
    /\ CanAcquire(<<"reader", r>>)
    /\ lock' = <<"reader", r>>
    /\ rpc' = [rpc EXCEPT ![r] = "copy"]
    /\ UNCHANGED <<ctlVars, cam, connected, last_error, frame, lastPub, pc, negVars,
                   local, captured, cycles, stopPc, result, callSeq, envVars, emitVars, objVars, chatVars, libVars>>

\* A get_frame() that never finds a frame.
LatestForgets(f) == NoFrame

\* What get_frame() returns for the slot content f.
Latest(f) == IF f # NoFrame THEN Copy(f) ELSE NoFrame

\* if self._frame is not None: return self._frame.copy(); return None
ReaderCopy(r) ==
    /\ rpc[r] = "copy"
    /\ result' = [result EXCEPT ![r] = Latest(frame)]
    /\ rpc' = [rpc EXCEPT ![r] = "release"]
    /\ UNCHANGED <<ctlVars, cam, connected, last_error, storeVars, pc, negVars,
                   local, captured, cycles, stopPc, callSeq, envVars, emitVars, objVars, chatVars, libVars>>

\* with self._frame_lock: (exit), and the call returns.
ReaderReturn(r) ==
    /\ rpc[r] = "release"
    /\ lock' = WithExit(lock)
    /\ rpc' = [rpc EXCEPT ![r] = "idle"]
    /\ callSeq' = [callSeq EXCEPT ![r] = 0]
    /\ UNCHANGED <<ctlVars, cam, connected, last_error, frame, lastPub, pc, negVars,
                   local, captured, cycles, stopPc, result, envVars, emitVars, objVars, chatVars, libVars>>

ReaderStep(r) ==
    ReaderCall(r) \/ ReaderAcquire(r) \/ ReaderCopy(r) \/ ReaderReturn(r)

(* ------------------- get_frame_jpeg and generate_mjpeg ------------------ *)
\* An encoder that loses the image data.
ImencodeDropsPixels(img) == <<"FFD8", "FFD9">>

\* cv2.imencode(".jpg", img)[1].tobytes(): the start-of-image marker, the
\* coded image data, the end-of-image marker.
Imencode(img) ==
    <<"FFD8">> \o [i \in 1..Len(img) |-> ToString(img[i])] \o <<"FFD9">>

\* A get_frame_jpeg() that encodes whatever get_frame() returned.
GetFrameJpegEncodesNone(f) == Imencode(f)

\* get_frame_jpeg(), given what get_frame() returned: None when there is no
\* frame, the JPEG encoding of the frame otherwise.
GetFrameJpeg(f) == IF f = NoFrame THEN NoJpeg ELSE Imencode(f)

\* base64.b64encode(jpeg).decode("utf-8"): the bytes rendered as text, group
\* after group.
RECURSIVE B64encode(_)
B64encode(bytes) ==
    IF bytes = <<>> THEN ""
    ELSE "[" \o Head(bytes) \o "]" \o B64encode(Tail(bytes))

\* get_frame_base64() returned None.
NoBase64 == [isNone |-> TRUE, text |-> ""]

\* A get_frame_base64() that encodes whatever get_frame_jpeg() returned.
GetFrameBase64EncodesNone(f) ==
    [isNone |-> FALSE, text |-> B64encode(GetFrameJpeg(f))]

\* get_frame_base64(), given what get_frame() returned: None when
\* get_frame_jpeg() returns None, the text of the JPEG bytes otherwise.
GetFrameBase64(f) ==
    IF GetFrameJpeg(f) = NoJpeg
    THEN NoBase64
    ELSE [isNone |-> FALSE, text |-> B64encode(GetFrameJpeg(f))]

\* GET /snapshot, given what get_frame_jpeg() returned.
SnapshotResponse(jpeg) ==
    IF jpeg = NoJpeg
    THEN [status |-> 503, body |-> <<"No camera frame available">>]
    ELSE [status |-> 200, body |-> jpeg]

\* The image _get_no_signal_frame draws: a dark gray background, the text
\* "No Signal" and, when there is a caption, the caption at the abscissa
\* that centres the text whose size was measured.
NoSignalImage(caption, measured) ==
    <<"gray", "No Signal">>
    \o (IF caption # "" THEN <<caption, "centred as: " \o measured>> ELSE <<>>)

\* The text cv2 gets for the value of self._last_error: the binding takes
\* None for a string argument as the empty string.
TextOf(err) == IF err = NoError THEN "" ELSE err

CRLF == "\r\n"

\* The part header of the multipart stream.
ChunkHeader == <<"--frame", CRLF, "Content-Type: image/jpeg", CRLF, CRLF>>

\* A part whose payload is missing.
MjpegChunkWithoutPayload(jpeg) == ChunkHeader \o <<CRLF>>

\* The bytes generate_mjpeg yields for the payload jpeg.
MjpegChunk(jpeg) == ChunkHeader \o jpeg \o <<CRLF>>

\* `if self._last_error:` None and the empty string are falsy.
Truthy(err) == err # NoError /\ err # ""

\* GET /video_feed: Flask starts to iterate generate_mjpeg(). app.py serves
\* requests after camera.start().
EmitterOpen ==
    /\ epc = "e_idle"
    /\ thread # 0
    /\ epc' = "e_test"
    /\ UNCHANGED <<ctlVars, cam, connected, last_error, storeVars, pc, negVars,
                   local, captured, cycles, stopPc, readVars, envVars, objVars, chatVars, libVars,
                   eframe, ejpeg, etext, chunk, edown>>

\* A generator that does not look at the flag.
AfterEmitterTestIgnoresFlag(flag) == "e_acquire"

\* while self._running: into the body, or out of the loop: the generator
\* returns and the iteration of the response ends.
AfterEmitterTest(flag) == IF flag THEN "e_acquire" ELSE "e_end"

\* while self._running: the previous iteration's locals are rebound.
EmitterTest ==
    /\ epc = "e_test"
    /\ epc' = AfterEmitterTest(running)
    /\ eframe' = NoFrame
    /\ ejpeg' = NoJpeg
    /\ etext' = ""
    /\ chunk' = NoChunk
    /\ edown' = FALSE
    /\ UNCHANGED <<ctlVars, cam, connected, last_error, storeVars, pc, negVars,
                   local, captured, cycles, stopPc, readVars, envVars, objVars, chatVars, libVars>>

\* get_frame_jpeg() -> get_frame(): with self._frame_lock: (enter)
EmitterAcquire ==
    /\ epc = "e_acquire"
    /\ CanAcquire(<<"emitter", 1>>)
    /\ lock' = <<"emitter", 1>>
    /\ epc' = "e_copy"
    /\ UNCHANGED <<ctlVars, cam, connected, last_error, frame, lastPub, pc, negVars,
                   local, captured, cycles, stopPc, readVars, envVars, objVars, chatVars, libVars,
                   eframe, ejpeg, etext, chunk, edown>>

\* get_frame(): return self._frame.copy(), or None
EmitterCopy ==
    /\ epc = "e_copy"
    /\ eframe' = Latest(frame)
    /\ edown' = (~connected /\ lastPub # NoFrame)
    /\ epc' = "e_release"
    /\ UNCHANGED <<ctlVars, cam, connected, last_error, storeVars, pc, negVars,
                   local, captured, cycles, stopPc, readVars, envVars, objVars, chatVars, libVars,
                   ejpeg, etext, chunk>>

\* get_frame(): with self._frame_lock: (exit); get_frame_jpeg() encodes and
\* returns; generate_mjpeg: if jpeg is None:
EmitterRelease ==
    /\ epc = "e_release"
    /\ lock' = WithExit(lock)
    /\ ejpeg' = GetFrameJpeg(eframe)
    /\ epc' = IF GetFrameJpeg(eframe) = NoJpeg THEN "e_ph_check" ELSE "e_yield"
    /\ UNCHANGED <<ctlVars, cam, connected, last_error, frame, lastPub, pc, negVars,
                   local, captured, cycles, stopPc, readVars, envVars, objVars, chatVars, libVars,
                   eframe, etext, chunk, edown>>

\* _get_no_signal_frame: if self._last_error: (first read of the attribute).
\* Without a caption the image is encoded and returned.
EmitterPlaceholderCheck ==
    /\ epc = "e_ph_check"
    /\ IF Truthy(last_error)
       THEN epc' = "e_ph_size" /\ ejpeg' = ejpeg
       ELSE epc' = "e_yield" /\ ejpeg' = Imencode(NoSignalImage("", ""))
    /\ UNCHANGED <<ctlVars, cam, connected, last_error, storeVars, pc, negVars,
                   local, captured, cycles, stopPc, readVars, envVars, objVars, chatVars, libVars,
                   eframe, etext, chunk, edown>>

\* err_text_size = cv2.getTextSize(self._last_error, ...): the attribute is
\* read again; the capture loop may have set it to None meanwhile.
EmitterPlaceholderSize ==
    /\ epc = "e_ph_size"
    /\ etext' = TextOf(last_error)
    /\ epc' = "e_ph_put"
    /\ UNCHANGED <<ctlVars, cam, connected, last_error, storeVars, pc, negVars,
                   local, captured, cycles, stopPc, readVars, envVars, objVars, chatVars, libVars,
                   eframe, ejpeg, chunk, edown>>

\* cv2.putText(img, self._last_error, (err_x, y + 40), ...): the third read
\* of the attribute; then the image is encoded and returned.
EmitterPlaceholderPut ==
    /\ epc = "e_ph_put"
    /\ ejpeg' = Imencode(NoSignalImage(TextOf(last_error), etext))
    /\ etext' = ""
    /\ epc' = "e_yield"
    /\ UNCHANGED <<ctlVars, cam, connected, last_error, storeVars, pc, negVars,
                   local, captured, cycles, stopPc, readVars, envVars, objVars, chatVars, libVars,
                   eframe, chunk, edown>>

\* yield (b"--frame\r\n" b"Content-Type: image/jpeg\r\n\r\n" + jpeg + b"\r\n")
EmitterYield ==
    /\ epc = "e_yield"
    /\ chunk' = MjpegChunk(ejpeg)
    /\ epc' = "e_sleep"
    /\ UNCHANGED <<ctlVars, cam, connected, last_error, storeVars, pc, negVars,
                   local, captured, cycles, stopPc, readVars, envVars, objVars, chatVars, libVars,
                   eframe, ejpeg, etext, edown>>

\* time.sleep(0.033)
EmitterSleep ==
    /\ epc = "e_sleep"
    /\ epc' = "e_test"
    /\ UNCHANGED <<ctlVars, cam, connected, last_error, storeVars, pc, negVars,
                   local, captured, cycles, stopPc, readVars, envVars, objVars, chatVars, libVars,
                   eframe, ejpeg, etext, chunk, edown>>

EmitterStep ==
    \/ EmitterOpen \/ EmitterTest \/ EmitterAcquire \/ EmitterCopy
    \/ EmitterRelease \/ EmitterPlaceholderCheck \/ EmitterPlaceholderSize
    \/ EmitterPlaceholderPut \/ EmitterYield \/ EmitterSleep

(* -------------------------- status accessors --------------------------- *)
\* The property is_connected: the flag as it is when the caller reads it.
is_connected == connected

\* The property last_error, named after the attribute it returns.
last_error_property == last_error

(* ------------------------ camera availability ------------------------- *)
\* The camera finishes booting or becomes reachable: from now on goodUrl
\* opens and delivers its first frame.
CameraComesUp ==
    /\ ~camUp
    /\ camUp' = TRUE
    /\ UNCHANGED <<ctlVars, cam, connected, last_error, storeVars, pc, negVars,
                   local, captured, cycles, stopPc, readVars, goodUrl, emitVars, objVars, chatVars, libVars>>

\* The camera becomes unreachable again.
CameraGoesDown ==
    /\ camUp
    /\ camUp' = FALSE
    /\ UNCHANGED <<ctlVars, cam, connected, last_error, storeVars, pc, negVars,
                   local, captured, cycles, stopPc, readVars, goodUrl, emitVars, objVars, chatVars, libVars>>

(* ----------------------- update_runtime_config ------------------------- *)
\* Values a POST /settings request gives camera_url_override.
OverrideUpdates == {"", "rtsp://override", "rtsp://other"}

\* update_runtime_config({"camera_url_override": u}): rebinds the global of
\* config.py. The name camera.py imported keeps the string it was bound to.
UpdateRuntimeConfig(u) ==
    /\ cfgOverride' = u
    /\ UNCHANGED <<running, thread, camOverride, cam, connected, last_error,
                   storeVars, pc, negVars, local, captured, cycles, stopPc,
                   readVars, envVars, emitVars, objVars, chatVars, libVars>>

\* POST /settings: served by app.run(), which app.py enters after
\* camera.start().
UpdateSettings(u) == thread # 0 /\ UpdateRuntimeConfig(u)

(* --------------------------- specifications ---------------------------- *)
\* The capture loop as app.py runs it: started once at boot, stopped by the
\* cleanup registered to run at exit.
Next ==
    \/ AppStart
    \/ AppStop
    \/ StopStep
    \/ \E t \in Threads : LoopStep(t)

Spec == Init /\ [][Next]_vars

\* The same, with the scheduling Python threads get: a thread that can take
\* a step (a sleep ends, a blocking read returns) eventually takes it.
FairSpec ==
    /\ Spec
    /\ \A t \in Threads : WF_vars(LoopStep(t))
    /\ WF_vars(StopStep)

(* ---------------------------- conversation ----------------------------- *)
\* The requests /identify, /chat and /chat/reset of app.py, served by Flask
\* with threaded=True: each request runs in a thread of its own.

IdentifyOutcomes == {"no_subjects", "no_sheet", "no_frame", "vlm_error", "ok"}

\* vlm.build_initial_conversation: the user message with the two images and
\* the prompt, and the assistant's answer.
BuildInitialConversation(sheet, frm, response) ==
    <<[role |-> "user", content |-> sheet \o "+" \o frm \o "+IDENTIFY_PROMPT"],
      [role |-> "assistant", content |-> response]>>

\* POST /identify. The handler touches current_conversation once, by the
\* assignment that follows a successful identify_subjects(); every other
\* way through it (no subjects, no contact sheet, no frame, VLMError)
\* returns an error and leaves it alone.
Identify(outcome) ==
    /\ IF outcome = "ok"
       THEN /\ current_conversation' =
                  [contact_sheet_b64 |-> "sheet", frame_b64 |-> "frame",
                   history |-> BuildInitialConversation("sheet", "frame", "answer")]
            /\ active' = TRUE
       ELSE UNCHANGED <<current_conversation, active>>
    /\ UNCHANGED <<cpc, cmsg, chist, cres>>
    /\ UNCHANGED <<ctlVars, cam, connected, last_error, storeVars, pc, negVars,
                   local, captured, cycles, stopPc, readVars, envVars, emitVars,
                   objVars, libVars>>

\* POST /chat/reset
ResetChat ==
    /\ current_conversation' = EmptyConversation
    /\ active' = FALSE
    /\ UNCHANGED <<cpc, cmsg, chist, cres>>
    /\ UNCHANGED <<ctlVars, cam, connected, last_error, storeVars, pc, negVars,
                   local, captured, cycles, stopPc, readVars, envVars, emitVars,
                   objVars, libVars>>

\* The JSON bodies of /chat requests: without a message, or with one.
ChatBodies ==
    {[has |-> FALSE, text |-> ""]} \cup
    {[has |-> TRUE, text |-> m] : m \in {"", " ", "why?", " why? "}}

\* str.strip() on the texts above.
Strip(text) ==
    CASE text = " "      -> ""
      [] text = " why? " -> "why?"
      [] OTHER           -> text

NoActiveConversation == "No active conversation. Try identifying someone first!"

\* chat(): the checks of the request body. They use nothing but the request.
ChatRequest(c, data) ==
    /\ cpc[c] = "idle"
    /\ Len(current_conversation.history) <= 2 * MaxTurns
    /\ chist' = [chist EXCEPT ![c] = <<>>]
    /\ IF ~data.has
       THEN /\ cres' = [cres EXCEPT ![c] = [status |-> 400, error |-> "Message is required"]]
            /\ UNCHANGED <<cpc, cmsg>>
       ELSE IF Strip(data.text) = ""
       THEN /\ cres' = [cres EXCEPT ![c] = [status |-> 400, error |-> "Message cannot be empty"]]
            /\ UNCHANGED <<cpc, cmsg>>
       ELSE /\ cres' = [cres EXCEPT ![c] = NoResponse]
            /\ cmsg' = [cmsg EXCEPT ![c] = Strip(data.text)]
            /\ cpc' = [cpc EXCEPT ![c] = "c_check"]
    /\ UNCHANGED <<current_conversation, active>>
    /\ UNCHANGED <<ctlVars, cam, connected, last_error, storeVars, pc, negVars,
                   local, captured, cycles, stopPc, readVars, envVars, emitVars,
                   objVars, libVars>>

\* `if not current_conversation["history"]:` negated: a non-empty list.
HasConversation(h) == h # <<>>

\* chat(): if not current_conversation["history"]: return the error, 400
ChatCheck(c) ==
    /\ cpc[c] = "c_check"
    /\ IF HasConversation(current_conversation.history)
       THEN /\ cpc' = [cpc EXCEPT ![c] = "c_args"]
            /\ UNCHANGED cres
       ELSE /\ cpc' = [cpc EXCEPT ![c] = "idle"]
            /\ cres' = [cres EXCEPT ![c] =
                           [status |-> 400, error |-> NoActiveConversation]]
    /\ UNCHANGED <<current_conversation, cmsg, chist, active>>
    /\ UNCHANGED <<ctlVars, cam, connected, last_error, storeVars, pc, negVars,
                   local, captured, cycles, stopPc, readVars, envVars, emitVars,
                   objVars, libVars>>

\* chat(): the arguments of chat_followup(...) are evaluated: the global is
\* looked up again and its history passed. (Histories of more than MaxTurns
\* follow-ups are not extended further.)
ChatArgs(c) ==
    /\ cpc[c] = "c_args"
    /\ Len(current_conversation.history) <= 2 * MaxTurns
    /\ chist' = [chist EXCEPT ![c] = current_conversation.history]
    /\ cpc' = [cpc EXCEPT ![c] = "c_vlm"]
    /\ UNCHANGED <<current_conversation, cmsg, cres, active>>
    /\ UNCHANGED <<ctlVars, cam, connected, last_error, storeVars, pc, negVars,
                   local, captured, cycles, stopPc, readVars, envVars, emitVars,
                   objVars, libVars>>

\* vlm.chat_followup on success: a copy of the conversation with the user's
\* message and the assistant's answer appended.
UpdatedConversation(conversation, user_message, response_text) ==
    conversation \o <<[role |-> "user", content |-> user_message],
                      [role |-> "assistant", content |-> response_text]>>

\* vlm.chat_followup(): the request to the model succeeds and the updated
\* copy is returned, or it fails and VLMError is raised, which chat()
\* answers with 503.
ChatFollowup(c) ==
    /\ cpc[c] = "c_vlm"
    /\ \E ok \in BOOLEAN :
          IF ok
          THEN /\ chist' = [chist EXCEPT ![c] =
                               UpdatedConversation(chist[c], cmsg[c], "reply")]
               /\ cpc' = [cpc EXCEPT ![c] = "c_store"]
               /\ UNCHANGED cres
          ELSE /\ chist' = [chist EXCEPT ![c] = <<>>]
               /\ cpc' = [cpc EXCEPT ![c] = "idle"]
               /\ cres' = [cres EXCEPT ![c] =
                              [status |-> 503, error |-> "VLMError"]]
    /\ UNCHANGED <<current_conversation, cmsg, active>>
    /\ UNCHANGED <<ctlVars, cam, connected, last_error, storeVars, pc, negVars,
                   local, captured, cycles, stopPc, readVars, envVars, emitVars,
                   objVars, libVars>>

\* chat(): current_conversation["history"] = updated_history, on the dict
\* the global refers to now; then the audio is made and the answer sent.
ChatStore(c) ==
    /\ cpc[c] = "c_store"
    /\ current_conversation' =
          [current_conversation EXCEPT !.history = chist[c]]
    /\ cpc' = [cpc EXCEPT ![c] = "idle"]
    /\ cres' = [cres EXCEPT ![c] = [status |-> 200, error |-> ""]]
    /\ UNCHANGED <<cmsg, chist, active>>
    /\ UNCHANGED <<ctlVars, cam, connected, last_error, storeVars, pc, negVars,
                   local, captured, cycles, stopPc, readVars, envVars, emitVars,
                   objVars, libVars>>

ChatStep(c) ==
    \/ \E data \in ChatBodies : ChatRequest(c, data)
    \/ ChatCheck(c) \/ ChatArgs(c) \/ ChatFollowup(c) \/ ChatStore(c)

ChatNext ==
    \/ \E outcome \in IdentifyOutcomes : Identify(outcome)
    \/ ResetChat
    \/ \E c \in Chatters : ChatStep(c)

(* ------------------------------ library -------------------------------- *)
\* The photo directory: photos maps the name of each subject directory that
\* exists to its files, file name -> the photo saved in it.

\* Names given to /enroll.
EnrollNames == {"Ann", "ann ", "Bob"}

\* _get_subject_dir: lower(), strip(), spaces to underscores, other
\* characters dropped, on the names above.
Normalized(name) ==
    CASE name = "Ann"  -> "ann"
      [] name = "ann " -> "ann"
      [] name = "Bob"  -> "bob"

\* f"{next_num:03d}.jpg"
PhotoName(n) ==
    (IF n < 10 THEN "00" ELSE IF n < 100 THEN "0" ELSE "") \o ToString(n) \o ".jpg"

\* list(subject_dir.glob("*.jpg")): the files of the directory (none when it
\* does not exist).
Glob(dir) == IF dir \in DOMAIN photos THEN DOMAIN photos[dir] ELSE {}

\* PhotoLibrary.enroll(name, frame): the directory is made if missing, the
\* frame is written to the file numbered len(existing) + 1 (cv2.imwrite
\* replaces a file of that name), and the number is reported as photo_count.
\* The contact sheet, made again from the directory, is not kept here.
Enroll(name) ==
    /\ enrolls < MaxPhotos
    /\ LET subject_dir == Normalized(name)
           existing    == Glob(subject_dir)
           next_num    == Cardinality(existing) + 1
           photo_path  == PhotoName(next_num)
           files       == [f \in existing \cup {photo_path} |->
                              IF f = photo_path THEN enrolls + 1
                              ELSE photos[subject_dir][f]]
       IN  /\ photos' = [d \in DOMAIN photos \cup {subject_dir} |->
                            IF d = subject_dir THEN files ELSE photos[d]]
           /\ libResult' = [op |-> "enroll", success |-> TRUE,
                            normalized_name |-> subject_dir,
                            photo_count |-> next_num, file |-> photo_path]
    /\ enrolls' = enrolls + 1
    /\ UNCHANGED <<ctlVars, cam, connected, last_error, storeVars, pc, negVars,
                   local, captured, cycles, stopPc, readVars, envVars, emitVars,
                   objVars, chatVars>>

\* File names a DELETE /library/<name>/<photo_id> may carry.
PhotoIds == {PhotoName(n) : n \in 1..(MaxPhotos + 1)}

\* PhotoLibrary.delete_photo(name, photo_id): "Photo not found" when the
\* path does not exist; otherwise the file is unlinked and the directory
\* removed when no *.jpg is left in it.
DeletePhoto(name, photo_id) ==
    /\ IF photo_id \notin Glob(name)
       THEN /\ UNCHANGED photos
            /\ libResult' = [op |-> "delete_photo", success |-> FALSE,
                             normalized_name |-> name, photo_count |-> 0,
                             file |-> photo_id]
       ELSE /\ LET remaining == Glob(name) \ {photo_id} IN
                 photos' =
                    IF remaining = {}
                    THEN [d \in DOMAIN photos \ {name} |-> photos[d]]
                    ELSE [photos EXCEPT ![name] =
                             [f \in remaining |-> photos[name][f]]]
            /\ libResult' = [op |-> "delete_photo", success |-> TRUE,
                             normalized_name |-> name, photo_count |-> 0,
                             file |-> photo_id]
    /\ UNCHANGED enrolls
    /\ UNCHANGED <<ctlVars, cam, connected, last_error, storeVars, pc, negVars,
                   local, captured, cycles, stopPc, readVars, envVars, emitVars,
                   objVars, chatVars>>

LibNext ==
    \/ \E name \in EnrollNames : Enroll(name)
    \/ \E name \in {Normalized(n) : n \in EnrollNames}, photo_id \in PhotoIds :
          DeletePhoto(name, photo_id)

(* --------------------------- array objects ----------------------------- *)
\* The frame store at the level of objects: which ndarray each name refers
\* to, so that two names for one array can be told from two equal arrays.
\* Publishing and get_frame() copy under the frame lock, so each is one step
\* here.

\* Enough ids for the slot, the loop's local, every caller's result and the
\* array being made.
ObjectIds == 1..(NReaders + 3)

NewId(h) == CHOOSE i \in ObjectIds \ DOMAIN h :
                \A j \in ObjectIds \ DOMAIN h : i <= j

\* A new array object with the pixels px.
Alloc(h, px) ==
    [heap |-> [i \in DOMAIN h \cup {NewId(h)} |->
                  IF i = NewId(h) THEN px ELSE h[i]],
     ref  |-> NewId(h)]

\* A copy() that returns the array it was called on.
NdarrayCopyShares(h, ref) == [heap |-> h, ref |-> ref]

\* ndarray.copy() as an object: a new array, the pixels those of h[ref].
NdarrayCopy(h, ref) == Alloc(h, Copy(h[ref]))

\* Reference counting: an array no name refers to is freed.
Collect(h, l, f, rs) ==
    [i \in DOMAIN h \cap ({l, f} \cup {rs[r] : r \in Readers}) |-> h[i]]

\* ret, frame = self._cam.read() with ret true: the binding returns a new
\* array holding the frame.
ObjRead ==
    /\ \E n \in 1..MaxFrames :
          LET a == Alloc(arrays, Frame(n)) IN
            /\ localRef' = a.ref
            /\ arrays' = Collect(a.heap, a.ref, frameRef, resultRef)
    /\ lastOp' = <<"read", 0>>
    /\ UNCHANGED <<frameRef, resultRef>>
    /\ UNCHANGED <<ctlVars, cam, connected, last_error, storeVars, pc, negVars,
                   local, captured, cycles, stopPc, readVars, envVars, emitVars, chatVars, libVars>>

\* with self._frame_lock: self._frame = frame.copy()
ObjPublish ==
    /\ localRef # 0
    /\ LET c == NdarrayCopy(arrays, localRef) IN
         /\ frameRef' = c.ref
         /\ arrays' = Collect(c.heap, localRef, c.ref, resultRef)
    /\ lastOp' = <<"publish", 0>>
    /\ UNCHANGED <<localRef, resultRef>>
    /\ UNCHANGED <<ctlVars, cam, connected, last_error, storeVars, pc, negVars,
                   local, captured, cycles, stopPc, readVars, envVars, emitVars, chatVars, libVars>>

\* get_frame(): with self._frame_lock: if self._frame is not None:
\* return self._frame.copy(); return None
ObjGetFrame(r) ==
    /\ IF frameRef # 0
       THEN LET c == NdarrayCopy(arrays, frameRef) IN
              /\ resultRef' = [resultRef EXCEPT ![r] = c.ref]
              /\ arrays' = Collect(c.heap, localRef, frameRef,
                                   [resultRef EXCEPT ![r] = c.ref])
       ELSE /\ resultRef' = [resultRef EXCEPT ![r] = 0]
            /\ arrays' = Collect(arrays, localRef, frameRef,
                                 [resultRef EXCEPT ![r] = 0])
    /\ lastOp' = <<"get_frame", r>>
    /\ UNCHANGED <<localRef, frameRef>>
    /\ UNCHANGED <<ctlVars, cam, connected, last_error, storeVars, pc, negVars,
                   local, captured, cycles, stopPc, readVars, envVars, emitVars, chatVars, libVars>>

\* The caller writes into the array get_frame() returned to it (a pixel is
\* blackened).
ObjMutateResult(r) ==
    /\ resultRef[r] # 0
    /\ arrays' = [arrays EXCEPT ![resultRef[r]][1] = 0]
    /\ lastOp' = <<"mutate", r>>
    /\ UNCHANGED <<localRef, frameRef, resultRef>>
    /\ UNCHANGED <<ctlVars, cam, connected, last_error, storeVars, pc, negVars,
                   local, captured, cycles, stopPc, readVars, envVars, emitVars, chatVars, libVars>>

\* The array the read returned is written into after the publish.
ObjMutateLocal ==
    /\ localRef # 0
    /\ arrays' = [arrays EXCEPT ![localRef][1] = 0]
    /\ lastOp' = <<"mutate_local", 0>>
    /\ UNCHANGED <<localRef, frameRef, resultRef>>
    /\ UNCHANGED <<ctlVars, cam, connected, last_error, storeVars, pc, negVars,
                   local, captured, cycles, stopPc, readVars, envVars, emitVars, chatVars, libVars>>

ObjNext ==
    \/ ObjRead
    \/ ObjPublish
    \/ \E r \in Readers : ObjGetFrame(r)
    \/ \E r \in Readers : ObjMutateResult(r)
    \/ ObjMutateLocal

ObjInit ==
    /\ InitObject
    /\ camOverride = ""
    /\ cfgOverride = ""
    /\ cycles = MaxCycles
    /\ camUp = FALSE
    /\ goodUrl = NoUrl

ObjSpec == ObjInit /\ [][ObjNext]_vars

\* The photo library, from an empty photo directory.
LibSpec == ObjInit /\ [][LibNext]_vars

\* The conversation endpoints, from the start of the application.
ChatSpec == ObjInit /\ [][ChatNext]_vars

\* The frame store: the capture loop publishing, request threads reading.
StoreNext ==
    \/ AppStart
    \/ \E t \in Threads : LoopStep(t)
    \/ \E r \in Readers : ReaderStep(r)

\* The default configuration (no override URL); the history of read failures
\* is not kept here (its counter starts saturated).
StoreInit ==
    /\ InitObject
    /\ camOverride = ""
    /\ cfgOverride = ""
    /\ cycles = MaxCycles
    /\ camUp = FALSE
    /\ goodUrl = NoUrl

StoreSpec == StoreInit /\ [][StoreNext]_vars

\* start() called again once stop() has returned and the capture thread has
\* ended.
StartAfterStop ==
    /\ stopPc = "returned"
    /\ thread # 0
    /\ pc[thread] \in {"done", "crashed"}
    /\ Start

\* The life of the object with its callers: started, stopped, started
\* again, while a request thread calls get_frame().
LifeNext ==
    \/ AppStart
    \/ StartAfterStop
    \/ AppStop
    \/ StopStep
    \/ \E t \in Threads : LoopStep(t)
    \/ ReaderStep(1)

LifeSpec == StoreInit /\ [][LifeNext]_vars

\* The frame store under fair scheduling: a thread that can take a step
\* eventually takes it, and a thread waiting for the lock gets it if the
\* lock is free again and again. Callers are not obliged to call.
FairStoreSpec ==
    /\ StoreSpec
    /\ \A t \in Threads : WF_vars(LoopStep(t)) /\ SF_vars(PublishAcquire(t))
    /\ \A r \in Readers :
          /\ WF_vars(ReaderCopy(r) \/ ReaderReturn(r))
          /\ SF_vars(ReaderAcquire(r))

\* Request threads calling the accessors while the application starts the
\* capture and stops it at exit.
AccessNext ==
    \/ AppStart
    \/ AppStop
    \/ StopStep
    \/ \E t \in Threads : LoopStep(t)
    \/ \E r \in Readers : ReaderStep(r)

AccessSpec == StoreInit /\ [][AccessNext]_vars

\* The capture loop against a camera that comes up and goes down.
CameraInit ==
    /\ InitObject
    /\ InitOverride
    /\ cycles = 0
    /\ camUp = FALSE
    /\ goodUrl \in {UrlAt(FirstPos.phase, FirstPos.idx),
                    RtspUrl(RTSP_PATHS[Len(RTSP_PATHS)]),
                    HttpUrl(HTTP_PATHS[1]), HttpUrl(HTTP_PATHS[Len(HTTP_PATHS)])}

CameraNext ==
    \/ AppStart
    \/ \E t \in Threads : LoopStep(t)
    \/ CameraComesUp
    \/ CameraGoesDown

CameraSpec ==
    /\ CameraInit /\ [][CameraNext]_vars
    /\ \A t \in Threads : WF_vars(LoopStep(t))

\* The public interface of CameraThread used to restart the capture: start(),
\* stop(), and start() again once stop() has returned.
ApiStart == stopPc \in {"idle", "returned"} /\ Start

ApiNext ==
    \/ ApiStart
    \/ AppStop
    \/ StopStep
    \/ \E t \in Threads : LoopStep(t)

\* The default configuration against a camera that is up and serves the
\* first RTSP path.
ApiInit ==
    /\ InitObject
    /\ camOverride = ""
    /\ cfgOverride = ""
    /\ cycles = MaxCycles
    /\ camUp = TRUE
    /\ goodUrl = RtspUrl(RTSP_PATHS[1])

ApiSpec == ApiInit /\ [][ApiNext]_vars

\* The capture loop while the settings endpoint updates the configuration.
ConfigNext ==
    \/ AppStart
    \/ \E t \in Threads : LoopStep(t)
    \/ \E u \in OverrideUpdates : UpdateSettings(u)

ConfigSpec == Init /\ [][ConfigNext]_vars

\* The capture loop and one streaming client of /video_feed.
StreamNext ==
    \/ AppStart
    \/ \E t \in Threads : LoopStep(t)
    \/ EmitterStep

StreamSpec == StoreInit /\ [][StreamNext]_vars

\* The capture loop and one streaming client until the cleanup at exit.
ShutdownNext ==
    \/ AppStart
    \/ AppStop
    \/ StopStep
    \/ \E t \in Threads : LoopStep(t)
    \/ EmitterStep

\* Python threads and the request thread of the stream are scheduled fairly.
ShutdownSpec ==
    /\ StoreInit /\ [][ShutdownNext]_vars
    /\ \A t \in Threads : WF_vars(LoopStep(t))
    /\ WF_vars(StopStep)
    /\ WF_vars(EmitterStep)

(***************************************************************************)
(* Properties                                                              *)
(***************************************************************************)
\* A candidate whose outcome is known and is a failure.
Failed(e) == e.status = "failed"

\* The declared priority order: the override URL when set, then the RTSP
\* paths in list order, then the HTTP paths in list order.
PriorityList ==
    (IF camOverride # "" THEN <<OverrideUrl(camOverride)>> ELSE <<>>)
    \o [i \in 1..Len(RTSP_PATHS) |-> RtspUrl(RTSP_PATHS[i])]
    \o [i \in 1..Len(HTTP_PATHS) |-> HttpUrl(HTTP_PATHS[i])]

\* C1: one negotiation tries the candidates strictly in priority order
\* (override, RTSP paths, HTTP paths): what it has attempted so far is a
\* prefix of the priority list, every candidate before the latest one has
\* failed (so nothing is attempted after a winner, nor before all
\* higher-priority candidates failed), and it reports failure only after the
\* whole list failed.
C1_PriorityOrder ==
    \A t \in Threads :
        LET tr == tried[t] IN
        /\ Len(tr) <= Len(PriorityList)
        /\ \A k \in 1..Len(tr) : tr[k].url = PriorityList[k]
        /\ \A k \in 1..(Len(tr) - 1) : Failed(tr[k])
        /\ pc[t] \in {"c_fail", "c_fail_err"} =>
              /\ Len(tr) = Len(PriorityList)
              /\ Failed(tr[Len(tr)])

\* C1 witness: a negotiation won by an HTTP candidate after the RTSP
\* candidates failed.
C1_Witness ==
    \E t \in Threads :
        /\ pc[t] = "c_conn"
        /\ Len(tried[t]) > Len(RTSP_PATHS) + 1
        /\ tried[t][Len(tried[t])].status = "won"

\* C2: when negotiation returns success the handle kept in self._cam is one
\* that opened and passed the test read, and it is the candidate that won; a
\* candidate that failed either step is on its way to release(), and while
\* the loop is connected (before any stop()) the handle it holds is a tested
\* one.
C2_SelectedWasTested ==
    /\ \A t \in Threads :
          /\ (pc[t] \in {"c_set", "c_conn", "c_err"} /\ cam # NoCam) =>
                /\ cam.wasOpened /\ cam.tested
                /\ tried[t][Len(tried[t])] = [url |-> cam.url, status |-> "won"]
          /\ pc[t] = "c_release" => Failed(tried[t][Len(tried[t])])
    /\ (connected /\ cam # NoCam /\ stopPc = "idle") =>
          (cam.wasOpened /\ cam.tested)

\* C2 witness: a candidate opened, its test read failed, it was released,
\* and a later candidate was then selected.
C2_Witness ==
    \E t \in Threads :
        /\ pc[t] = "c_err"
        /\ connected
        /\ cam # NoCam /\ cam.tested
        /\ rejected[t]

\* C3: get_frame() returns None when nothing has been published and
\* otherwise a copy equal to the frame of the latest publish, as of the
\* moment the reader holds the lock; no reader ever holds a torn frame.
C3_LatestOrNone ==
    \A r \in Readers :
        /\ rpc[r] = "release" => result[r] = lastPub
        /\ result[r] # NoFrame =>
              (WellFormed(result[r]) /\ DOMAIN result[r] = 1..FrameWords)

\* C3 witness: a reader, lock in hand, has just copied the second frame
\* published while another reader still holds the first one.
C3_Witness ==
    \E r, q \in Readers :
        /\ rpc[r] = "release"
        /\ FrameId(result[r]) = 2
        /\ FrameId(result[q]) = 1

\* The threads inside the critical section of self._frame_lock.
InCritical ==
    {<<"loop", t>> : t \in {u \in Threads : pc[u] \in {"pub_store", "pub_release"}}}
    \cup {<<"reader", r>> : r \in {q \in Readers : rpc[q] \in {"copy", "release"}}}

\* C4: publish and get_frame() exclude each other: at most one thread is
\* inside the critical section of _frame_lock, it is the one that holds the
\* lock, and the slot holds one frame at most, the latest one published.
C4_MutualExclusion ==
    /\ Cardinality(InCritical) <= 1
    /\ \A w \in InCritical : lock = w
    /\ frame = lastPub

\* C4 witness: the capture loop is replacing the slot while a reader waits
\* for the lock.
C4_Witness ==
    \E t \in Threads, r \in Readers :
        /\ pc[t] = "pub_store"
        /\ rpc[r] = "acquire"
        /\ frame # NoFrame

\* C5: a get_frame() call returns the frame that was the latest when the
\* call began or a newer one; and the latest frame when a call begins is no
\* older than the frame the same reader's previous call returned, so that
\* successive calls never return frames in reverse publication order.
C5_Freshness ==
    [][\A r \in Readers :
          /\ (rpc[r] = "copy" /\ rpc'[r] = "release") =>
                FrameId(result'[r]) >= callSeq[r]
          /\ (rpc[r] = "idle" /\ rpc'[r] = "acquire") =>
                callSeq'[r] >= FrameId(result[r])]_vars

\* C5 witness: a call that began after the first publish has returned the
\* second frame, published while it waited.
C5_Witness ==
    \E r \in Readers :
        /\ rpc[r] = "release"
        /\ callSeq[r] = 1
        /\ FrameId(result[r]) = 2

\* C6: a failed read on the connected handle takes the loop to Disconnected
\* (flag cleared, handle released and set to None before the retry sleep), a
\* successful negotiation takes it back to Connected, and the loop neither
\* gets stuck nor ends on the way: a live loop thread can always take a
\* step, and no loop thread ends before stop() is called.
C6_RecoveryCycle ==
    \A t \in Threads :
        /\ pc[t] \in {"rf_release", "rf_clear", "sleep_retry"} => ~connected
        /\ (pc[t] = "rf_clear" /\ cam # NoCam) => ~cam.opened
        /\ pc[t] = "sleep_retry" => (cam = NoCam /\ OpenHandles = 0)
        /\ pc[t] \in {"c_err", "read"} => connected
        /\ Alive(t) => ENABLED LoopStep(t)
        /\ pc[t] \in {"done", "crashed"} => stopPc # "idle"

\* C6 witness: the loop is Connected again after its second read failure.
C6_Witness ==
    \E t \in Threads :
        /\ pc[t] = "read"
        /\ cycles >= 2
        /\ connected
        /\ cam # NoCam /\ cam.opened /\ cam.tested

\* C7: negotiation is retried without limit: every failed negotiation is
\* followed by another one, and once the camera stays up (one candidate
\* opens and delivers its first frame) the running loop gets Connected,
\* however many negotiations failed before.
C7_RetriesUntilConnected ==
    /\ \A t \in Threads : (pc[t] = "sleep_reconnect") ~> (pc[t] = "c_begin")
    /\ (running /\ camUp) ~> (connected \/ ~camUp)

\* C7 witness: a negotiation has just succeeded on the URL the camera
\* serves, while last_error still tells of an earlier negotiation that
\* failed.
C7_Witness ==
    \E t \in Threads :
        /\ pc[t] = "c_err"
        /\ connected /\ camUp
        /\ cam # NoCam /\ cam.url = goodUrl
        /\ last_error = ConnectError

\* C8: no exception escapes the capture loop.
C8_NoExceptionEscapes == \A t \in Threads : pc[t] # "crashed"

\* C9: after stop() the loop ends: at its next loop test it sees the flag
\* cleared and leaves, an ended thread takes no further step, and every
\* loop thread has ended some time after stop() was called.
C9_StopEndsLoop ==
    /\ [][\A t \in Threads :
            /\ (pc[t] = "test" /\ ~running /\ pc'[t] # pc[t]) => pc'[t] = "done"
            /\ pc[t] \in {"done", "crashed"} => pc'[t] = pc[t]]_vars
    /\ (stopPc # "idle") ~> (\A t \in Threads : ~Alive(t))

\* C9 witness: stop() was called while the loop slept after a failed
\* negotiation, its join timed out, and the loop has ended since.
C9_Witness ==
    \E t \in Threads :
        /\ pc[t] = "done"
        /\ stopPc = "returned"
        /\ last_error = ConnectError
        /\ ~connected

\* C10: once stop() has returned and the capture loop has ended, no
\* transport handle is open.
C10_NoHandleLeftOpen ==
    (stopPc = "returned" /\ \A t \in Threads : ~Alive(t)) => OpenHandles = 0

\* C11: at most one transport handle is open at any instant, whatever the
\* sequence of start(), stop(), negotiation and read-failure steps.
C11_AtMostOneHandle == OpenHandles <= 1

\* C12: the handle is owned by the capture loop alone: self._cam changes
\* only in a step of a capture-loop thread, and the thread that runs stop()
\* never reaches the statements that release or reassign it.
C12_LoopOwnsHandle ==
    [][/\ cam' # cam => \E t \in Threads : pc'[t] # pc[t]
       /\ stopPc' \notin {"s_rel", "s_clr"}]_vars

\* C13: exactly one capture loop runs: start() creates a thread only when
\* the running flag is clear, and at most one capture-loop thread is live at
\* any time, for any sequence of start() and stop() calls.
C13_OneLoop ==
    Cardinality({t \in Threads : Alive(t)}) <= 1

\* The first candidate of a negotiation that honours the override URL o.
FirstCandidate(o) == IF o # "" THEN OverrideUrl(o) ELSE RtspUrl(RTSP_PATHS[1])

\* C14: a negotiation that starts after update_runtime_config replaced the
\* override URL has the new override as its first candidate (the first RTSP
\* path when the override was cleared), and the update itself leaves the
\* handle in self._cam as it is.
C14_OverridePickedUp ==
    [][/\ \A t \in Threads :
             (pc[t] = "c_begin" /\ pc'[t] = "c_new") =>
                 UrlAt(phase'[t], idx'[t]) = FirstCandidate(cfgOverride)
       /\ cfgOverride' # cfgOverride => cam' = cam]_vars

\* C15: last_error reflects the most recent failure whatever the connection
\* state: once it names a failure no later step clears it (a successful
\* reconnection included), and when the loop has handled a read failure the
\* accessor returns a cause.
C15_LastErrorKeepsLatestFailure ==
    [][/\ last_error_property # NoError => last_error_property' # NoError
       /\ \A t \in Threads :
             (pc[t] = "rf_clear" /\ pc'[t] = "sleep_retry") =>
                 last_error_property' # NoError]_vars

\* C16: a negotiation that has succeeded leaves connected == True and
\* last_error == None, whatever failed before, and the status accessors never
\* show connected == True together with a last_error that is not None.
C16_ConnectedHasNoError ==
    /\ \A t \in Threads :
          (pc[t] = "read" /\ stopPc = "idle") =>
              (is_connected /\ last_error_property = NoError)
    /\ is_connected => last_error_property = NoError

\* C17: after the first failed read on a connected handle the loop is
\* Disconnected before it negotiates again: when it goes to sleep before the
\* retry, connected is False, the handle has been released and dropped, and
\* last_error has been set by the read failure.
C17_ReadFailureRecorded ==
    \A t \in Threads :
        pc[t] = "sleep_retry" =>
            /\ ~is_connected
            /\ cam = NoCam
            /\ last_error_property # NoError

\* The payload of a part: what lies between the header and the final CRLF.
Payload(c) == SubSeq(c, Len(ChunkHeader) + 1, Len(c) - 1)

\* The encodings of the placeholder image, with and without a caption.
PlaceholderJpegs ==
    {Imencode(NoSignalImage(c, m)) : c, m \in {"", ConnectError}}

\* C18: once the connection is lost after a successful capture, the stream
\* carries the placeholder: a chunk whose frame was fetched while the
\* connection was lost, and which is emitted while it still is, has the
\* placeholder image as payload; and the emitter has not stopped.
C18_PlaceholderAfterLoss ==
    /\ (epc = "e_sleep" /\ edown /\ ~connected) =>
           Payload(chunk) \in PlaceholderJpegs
    /\ (edown /\ ~connected) => epc # "e_end"

\* C19: while nothing has ever been published, get_frame_jpeg() returns None
\* (the /snapshot endpoint answers 503), and the running emitter produces a
\* placeholder chunk in every iteration: its loop has not ended, it can go
\* on whenever the lock is free, the payload it is about to yield and the
\* chunk it has yielded are the placeholder.
C19_PlaceholderWhileEmpty ==
    lastPub = NoFrame =>
        /\ epc \in {"e_ph_check", "e_ph_size", "e_ph_put"} =>
              /\ ejpeg = NoJpeg
              /\ SnapshotResponse(ejpeg).status = 503
        /\ epc # "e_end"
        /\ (epc # "e_idle" /\ (epc = "e_acquire" => lock = Free)) =>
              ENABLED EmitterStep
        /\ epc = "e_yield" => ejpeg \in PlaceholderJpegs
        /\ epc = "e_sleep" =>
              (chunk # NoChunk /\ Payload(chunk) \in PlaceholderJpegs)

\* C19 witness: nothing has been published, a negotiation has failed, and
\* the emitter has just yielded the placeholder that carries the error as
\* its caption.
C19_Witness ==
    /\ lastPub = NoFrame
    /\ epc = "e_sleep"
    /\ Payload(chunk) = Imencode(NoSignalImage(ConnectError, ConnectError))

\* C20: every chunk the emitter yields is the part header, one JPEG payload
\* and a CRLF; the payload is never empty: it is the encoding of the frame
\* the store held when the emitter read it, and a non-empty placeholder
\* (whether or not last_error is None) when the store was empty.
C20_ChunkFormat ==
    epc = "e_sleep" =>
        /\ Len(chunk) > Len(ChunkHeader) + 1
        /\ SubSeq(chunk, 1, Len(ChunkHeader)) =
              <<"--frame", "\r\n", "Content-Type: image/jpeg", "\r\n", "\r\n">>
        /\ chunk[Len(chunk)] = "\r\n"
        /\ LET jpeg == Payload(chunk) IN
           /\ jpeg # NoJpeg
           /\ jpeg[1] = "FFD8" /\ jpeg[Len(jpeg)] = "FFD9"
           /\ Cardinality({k \in 1..Len(jpeg) : jpeg[k] = "FFD8"}) = 1
           /\ Len(jpeg) > 2
           /\ IF eframe # NoFrame
              THEN jpeg = Imencode(eframe)
              ELSE jpeg \in PlaceholderJpegs

\* C20 witness: the store is empty and last_error is None after a
\* successful negotiation, and the emitter has yielded the placeholder
\* without a caption.
C20_Witness ==
    /\ epc = "e_sleep"
    /\ eframe = NoFrame
    /\ connected /\ last_error = NoError
    /\ Payload(chunk) = Imencode(NoSignalImage("", ""))
    /\ Len(Payload(chunk)) = 4

\* The placeholder encodings whose caption is the negotiation error.
CaptionedJpegs ==
    {Imencode(NoSignalImage(ConnectError, m)) : m \in {"", ConnectError}}

\* C21: a negotiation whose candidates all failed returns failure with
\* connected False and last_error set to a message naming the camera host;
\* the accessor returns that message until a negotiation succeeds (no other
\* step changes it), and the placeholder drawn meanwhile carries it as its
\* caption.
C21_ExhaustedSetsLastError ==
    [][/\ \A t \in Threads :
             pc'[t] = "sleep_reconnect" =>
                 /\ ~is_connected'
                 /\ last_error_property' = "Cannot connect to camera at 192.168.68.55"
       /\ (last_error_property = ConnectError /\ last_error_property' # ConnectError) =>
             \E t \in Threads : pc[t] = "c_err" /\ pc'[t] = "read"
       /\ (epc = "e_ph_check" /\ epc' # epc /\ last_error = ConnectError) =>
             epc' = "e_ph_size"
       /\ (epc = "e_ph_put" /\ epc' = "e_yield" /\ last_error = ConnectError) =>
             ejpeg' \in CaptionedJpegs]_vars

\* C21 witness: every candidate has failed, the loop sleeps before the next
\* negotiation, and the emitter has yielded the placeholder with the error
\* as its caption.
C21_Witness ==
    /\ \E t \in Threads : pc[t] = "sleep_reconnect"
    /\ ~connected /\ last_error = ConnectError
    /\ epc = "e_sleep"
    /\ Payload(chunk) = Imencode(NoSignalImage(ConnectError, ConnectError))

\* C22: negotiation leaks no handle: when the next candidate is about to be
\* opened no handle is open (the candidate before it, whether it failed to
\* open or failed its first read, has been released), a negotiation never
\* has two handles open, and when it ends in failure no handle is open.
C22_NoLeakAcrossCandidates ==
    \A t \in Threads :
        /\ pc[t] = "c_new" =>
              /\ OpenHandles = 0
              /\ cam # NoCam => ~cam.opened
              /\ \A k \in 1..Len(tried[t]) : Failed(tried[t][k])
        /\ pc[t] \in {"c_assign", "c_isopen", "c_read", "c_release"} =>
              OpenHandles <= 1
        /\ pc[t] \in {"c_fail", "c_fail_err", "sleep_reconnect"} =>
              OpenHandles = 0

\* C22 witness: a candidate that opened and failed its first read has been
\* released, and the next candidate is about to be opened.
C22_Witness ==
    \E t \in Threads :
        /\ pc[t] = "c_new"
        /\ rejected[t]
        /\ cam # NoCam /\ cam.wasOpened /\ ~cam.opened
        /\ Len(tried[t]) >= 2

\* C23: the stream ends when the capture is stopped: a generator that tests
\* the flag after stop() cleared it returns, without yielding anything more
\* (no closing marker); each iteration yields one chunk and goes back to the
\* test, so at most the chunk of the iteration under way follows the stop;
\* the generator returns only when the flag is clear; and every generator
\* that is active after stop() was called has returned some time later.
C23_EmitterEndsOnStop ==
    /\ [][/\ (epc = "e_test" /\ ~running /\ epc' # epc) =>
                (epc' = "e_end" /\ chunk' = NoChunk)
          /\ (epc = "e_sleep" /\ epc' # epc) => epc' = "e_test"
          /\ (epc' = "e_sleep" /\ epc' # epc) => epc = "e_yield"
          /\ epc = "e_end" => (epc' = "e_end" /\ chunk' = NoChunk)
          /\ (epc' = "e_end" /\ epc' # epc) => ~running]_vars
    /\ (stopPc # "idle" /\ epc # "e_idle") ~> (epc = "e_end")

\* C23 witness: stop() was called while the emitter was in an iteration that
\* served a camera frame; the generator has returned.
C23_Witness ==
    /\ epc = "e_end"
    /\ stopPc = "returned"
    /\ ~running
    /\ lastPub # NoFrame
    /\ chunk = NoChunk

\* The positions at which the loop is inside time.sleep().
SleepPositions == {"sleep_reconnect", "sleep_retry", "sleep_frame"}

\* C24: every iteration of the loop ends with the sleep of its outcome: the
\* loop test is reached only from a sleep (or when the thread starts); a
\* failed negotiation goes to the sleep of the reconnect interval (5 s), a
\* handled read failure to the sleep of 1 s, a publish to the sleep of
\* 33 ms, and nothing else sleeps; a negotiation begins only from the checks
\* that follow the loop test, so two negotiations are separated by a sleep.
C24_PolicySleeps ==
    [][\A t \in Threads :
          pc'[t] # pc[t] =>
              /\ pc'[t] = "test" => pc[t] \in SleepPositions \cup {"unborn"}
              /\ pc[t] = "c_fail_err" =>
                    (pc'[t] \in SleepPositions /\ SleepMs(pc'[t]) = 5000)
              /\ pc[t] = "rf_clear" =>
                    (pc'[t] \in SleepPositions /\ SleepMs(pc'[t]) = 1000)
              /\ pc[t] = "pub_release" =>
                    (pc'[t] \in SleepPositions /\ SleepMs(pc'[t]) = 33)
              /\ pc'[t] \in SleepPositions =>
                    pc[t] \in {"c_fail_err", "rf_clear", "pub_release"}
              /\ pc[t] \in SleepPositions => pc'[t] = "test"
              /\ pc'[t] = "c_begin" => pc[t] \in {"chk_conn", "chk_cam"}
              /\ pc'[t] = "chk_conn" => pc[t] = "test"]_vars

\* C24 witness: after a negotiation that failed (and its 5 s sleep) and one
\* that succeeded, a read has failed and the loop is in the 1 s sleep.
C24_Witness ==
    \E t \in Threads :
        /\ pc[t] = "sleep_retry"
        /\ SleepMs(pc[t]) = 1000
        /\ last_error = NoError
        /\ cycles >= 1
        /\ cam = NoCam

\* Pixels of the array a name refers to (None for no array).
PixelsOf(ref) == IF ref = 0 THEN NoFrame ELSE arrays[ref]

\* C25: frames are copied into and out of the slot. A publish stores a new
\* array with the pixels of the frame read, a get_frame() returns a new array
\* with the pixels of the slot (None for an empty slot); the stored pixels
\* change only by a publish and a caller's result only by that caller's own
\* call or write, whatever is written into other arrays.
C25_CopiesAreIndependent ==
    [][/\ lastOp' = <<"publish", 0>> =>
             /\ PixelsOf(frameRef)' = PixelsOf(localRef)
             /\ frameRef' \notin {localRef'} \cup {resultRef'[r] : r \in Readers}
       /\ lastOp' # <<"publish", 0>> => PixelsOf(frameRef)' = PixelsOf(frameRef)
       /\ \A r \in Readers :
             /\ lastOp' = <<"get_frame", r>> =>
                   /\ PixelsOf(resultRef[r])' = PixelsOf(frameRef)
                   /\ resultRef'[r] # 0 =>
                         resultRef'[r] \notin
                             {localRef', frameRef'} \cup
                             {resultRef'[q] : q \in Readers \ {r}}
             /\ lastOp' \notin {<<"get_frame", r>>, <<"mutate", r>>} =>
                   PixelsOf(resultRef[r])' = PixelsOf(resultRef[r])]_vars

\* C25 witness: a caller has written into its result while the slot and
\* another caller's result still hold the frame it was copied from, and the
\* array the frame was read into has been written into as well.
C25_Witness ==
    /\ lastOp = <<"mutate", 1>>
    /\ frameRef # 0
    /\ resultRef[1] # 0
    /\ resultRef[2] # 0
    /\ localRef # 0
    /\ arrays[frameRef] \in {Frame(n) : n \in 1..MaxFrames}
    /\ arrays[resultRef[2]] = arrays[frameRef]
    /\ arrays[resultRef[1]] # arrays[frameRef]
    /\ arrays[localRef] # arrays[frameRef]

\* C26: a chunk is made from what the store holds when the chunk is being
\* produced. The emitter starts every iteration with nothing kept from the
\* one before, fetches the current content of the slot, and yields one chunk
\* in every iteration, whose payload carries the pixels of the frame fetched
\* in that iteration (the placeholder if the slot was empty), whatever was
\* yielded before.
C26_ChunkFromCurrentContent ==
    [][/\ (epc = "e_test" /\ epc' # epc) =>
             (eframe' = NoFrame /\ ejpeg' = NoJpeg /\ chunk' = NoChunk)
       /\ (epc = "e_copy" /\ epc' # epc) =>
             (eframe' = frame /\ frame' = frame)
       /\ eframe' # eframe => epc \in {"e_test", "e_copy"}
       /\ (epc' = "e_sleep" /\ epc # epc') =>
             /\ epc = "e_yield"
             /\ chunk' # NoChunk
             /\ IF eframe # NoFrame
                THEN /\ Len(Payload(chunk')) = Len(eframe) + 2
                     /\ \A i \in 1..Len(eframe) :
                           Payload(chunk')[i + 1] = ToString(eframe[i])
                ELSE Payload(chunk') \in PlaceholderJpegs
       /\ (epc' = "e_test" /\ epc # epc') =>
             (epc = "e_idle" \/ (epc = "e_sleep" /\ chunk # NoChunk))]_vars

\* C26 witness: the emitter has yielded the second frame captured, which is
\* the one the store holds, after a pass of its loop.
C26_Witness ==
    /\ epc = "e_sleep"
    /\ FrameId(eframe) = 2
    /\ frame = eframe
    /\ Payload(chunk) = <<"FFD8">> \o [i \in 1..FrameWords |-> "2"] \o <<"FFD9">>

\* C27: the JPEG and base64 accessors return None exactly when the slot is
\* empty when they read it (then /snapshot answers 503) and otherwise the
\* encoding of the latest frame, whatever the connection state and whether or
\* not the capture was stopped; a call never waits for a frame: it can
\* always go on unless another thread is inside the lock, and that thread
\* can leave it.
C27_AccessorsNeverWait ==
    /\ \A r \in Readers :
          /\ rpc[r] = "release" =>
                LET jpeg == GetFrameJpeg(result[r])
                    b64  == GetFrameBase64(result[r])
                IN  /\ (jpeg = NoJpeg) <=> (frame = NoFrame)
                    /\ (b64 = NoBase64) <=> (frame = NoFrame)
                    /\ b64.isNone <=> (frame = NoFrame)
                    /\ SnapshotResponse(jpeg).status =
                           IF frame = NoFrame THEN 503 ELSE 200
                    /\ frame # NoFrame =>
                          /\ Len(jpeg) = Len(lastPub) + 2
                          /\ \A i \in 1..Len(lastPub) :
                                jpeg[i + 1] = ToString(lastPub[i])
                          /\ b64.text = B64encode(jpeg)
                          /\ b64.text # ""
          /\ (rpc[r] # "idle" /\ (rpc[r] = "acquire" => lock = Free)) =>
                ENABLED ReaderStep(r)
    /\ \A t \in Threads : lock = <<"loop", t>> => ENABLED LoopStep(t)
    /\ \A r \in Readers : lock = <<"reader", r>> => ENABLED ReaderStep(r)

\* C27 witness: after stop() has returned, with the flag saying disconnected
\* after frames were captured, an accessor call has read the last frame.
C27_Witness ==
    /\ stopPc = "returned"
    /\ ~connected
    /\ rpc[1] = "release"
    /\ result[1] = lastPub
    /\ FrameId(lastPub) = 2
    /\ GetFrameBase64(result[1]).text =
           B64encode(<<"FFD8">> \o [i \in 1..FrameWords |-> "2"] \o <<"FFD9">>)

\* C28: the frame store does not deadlock and nobody is kept out for ever.
\* Under fair scheduling a publish that waits for the lock completes, and so
\* does every get_frame() call; a caller that only keeps a copy returned to
\* it is not inside the lock, and a publish can enter whenever the lock is
\* free.
C28_NoStarvation ==
    /\ \A t \in Threads : (pc[t] = "pub_acquire") ~> (pc[t] = "sleep_frame")
    /\ \A r \in Readers : (rpc[r] = "acquire") ~> (rpc[r] = "idle")
    /\ [](\A r \in Readers : rpc[r] = "idle" => lock # <<"reader", r>>)
    /\ [](\A t \in Threads :
            (pc[t] = "pub_acquire" /\ lock = Free) => ENABLED PublishAcquire(t))

\* C28 witness: a publish waits for the lock while one caller is inside it
\* and another caller keeps the copy an earlier call returned.
C28_Witness ==
    \E t \in Threads :
        /\ pc[t] = "pub_acquire"
        /\ lock = <<"reader", 1>>
        /\ rpc[2] = "idle"
        /\ result[2] # NoFrame

\* C29: the connected flag agrees with the handle in every reachable state,
\* also once stop() has returned: whenever is_connected is True, self._cam
\* refers to an open handle.
C29_ConnectedMeansOpenHandle ==
    is_connected => (cam # NoCam /\ cam.opened)

\* C30: once a frame has been published the slot is never empty again: no
\* step (of a read failure, a failed negotiation, stop() or start()) takes
\* the slot from a frame to None, the slot holds a frame from the first
\* publish on, and every get_frame() that reads the slot from then on
\* returns the last published frame, connected or not.
C30_SlotNeverEmptiedAgain ==
    [][/\ frame # NoFrame => frame' # NoFrame
       /\ lastPub' # NoFrame => frame' = lastPub'
       /\ \A r \in Readers :
             (rpc[r] = "copy" /\ rpc'[r] = "release" /\ lastPub # NoFrame) =>
                 (result'[r] # NoFrame /\ result'[r] = lastPub)]_vars

\* C30 witness: the capture was stopped and started again, the new loop has
\* failed to negotiate, and a get_frame() call made meanwhile has read the
\* frame captured before the stop.
C30_Witness ==
    /\ thread = 2
    /\ pc[2] = "sleep_reconnect"
    /\ ~is_connected
    /\ rpc[1] = "release"
    /\ callSeq[1] = FrameId(lastPub)
    /\ result[1] = lastPub
    /\ lastPub # NoFrame

\* The positions at which the capture loop calls a method of self._cam:
\* isOpened(), read(), set() and release() in _connect, read() and release()
\* in _capture_loop.
DerefPositions == {"c_isopen", "c_read", "c_set", "c_release", "read", "rf_release"}

\* C31: whenever the capture loop is about to call a method of self._cam,
\* self._cam is not None, whatever a concurrent stop() has done.
C31_HandleNotNoneAtUse ==
    \A t \in Threads : pc[t] \in DerefPositions => cam # NoCam

\* C32: the handle that won the negotiation is asked for a buffer of one
\* frame before the loop is marked connected and before a frame read from it
\* is published: the assignment of the flag is made only from the position
\* that follows the set() call, reached only through that call on a handle
\* that opened and passed the test read, it finds the handle (if stop() has
\* not taken it away) configured, and a frame on its way to the store was
\* read from a handle configured so. A handle that was rejected is never
\* configured, and it is released when _connect moves on.
C32_BufferSetBeforeConnected ==
    [][/\ (~connected /\ connected') => \E t \in Threads : pc[t] = "c_conn"
       /\ \A t \in Threads :
             /\ (pc'[t] = "c_conn" /\ pc[t] # "c_conn") =>
                   /\ pc[t] = "c_set"
                   /\ cam' # NoCam
                   /\ cam'.bufsize = 1
                   /\ cam'.wasOpened /\ cam'.tested
             /\ (pc[t] = "c_conn" /\ pc'[t] # pc[t]) =>
                   /\ connected'
                   /\ cam # NoCam => cam.bufsize = 1
             /\ (pc[t] = "read" /\ pc'[t] = "pub_acquire") => cam.bufsize = 1
             /\ (pc'[t] = "c_release" /\ cam' # NoCam) => cam'.bufsize = 0
             /\ (pc[t] = "c_release" /\ pc'[t] \notin {"c_release", "crashed"}
                   /\ cam' # NoCam) => ~cam'.opened
       /\ (cam' # NoCam /\ cam'.bufsize # 0) =>
             (cam'.bufsize = 1 /\ cam'.wasOpened /\ cam'.tested)]_vars

\* C32 witness: after a candidate that opened was rejected by its test read,
\* a later candidate has been selected and configured, and the loop is about
\* to set the flag; nothing has been published yet.
C32_Witness ==
    \E t \in Threads :
        /\ pc[t] = "c_conn"
        /\ rejected[t]
        /\ cam # NoCam /\ cam.opened /\ cam.bufsize = 1
        /\ ~connected
        /\ frame = NoFrame

\* C33: a follow-up is accepted only while a conversation is active. A
\* /chat checked when no /identify has succeeded since start-up or since the
\* latest /chat/reset is rejected with the "No active conversation" error,
\* and the history is empty as long as that is so; an accepted /chat extends
\* the stored history by the question and the answer; a /chat that fails
\* with a VLM error leaves the history as it was; /chat/reset empties it.
C33_ChatNeedsConversation ==
    [][/\ ~active' => current_conversation'.history = <<>>
       /\ \A c \in Chatters :
             /\ (cpc[c] = "c_check" /\ cpc'[c] # cpc[c] /\ ~active) =>
                   /\ cpc'[c] = "idle"
                   /\ cres'[c] = [status |-> 400,
                                  error |-> "No active conversation. Try identifying someone first!"]
             /\ (cpc[c] = "c_store" /\ cpc'[c] # cpc[c]) =>
                   /\ Len(current_conversation'.history) =
                          Len(current_conversation.history) + 2
                   /\ SubSeq(current_conversation'.history, 1,
                             Len(current_conversation.history)) =
                          current_conversation.history
             /\ (cpc[c] = "c_vlm" /\ cpc'[c] = "idle") =>
                   /\ cres'[c].status = 503
                   /\ current_conversation' = current_conversation]_vars

\* C34: enrolling adds a photo and never overwrites one: every enroll leaves
\* the subject with exactly one photo more than before, writes to a file
\* name that was not in use, and reports as photo_count the number of
\* photos the subject has afterwards.
C34_EnrollAddsPhoto ==
    [][enrolls' = enrolls + 1 =>
          LET subject == libResult'.normalized_name
              before  == IF subject \in DOMAIN photos
                         THEN DOMAIN photos[subject] ELSE {}
              after   == DOMAIN photos'[subject]
          IN  /\ Cardinality(after) = Cardinality(before) + 1
              /\ libResult'.file \notin before
              /\ libResult'.photo_count = Cardinality(after)]_vars

====
